---------------------------- MODULE Spec2Model ----------------------------
(***************************************************************************)
(* State-machine model of demangler::Demangler (Source/Core/Common/        *)
(* Demangler.cpp).  Demangle is a recursive-descent decoder over a shared  *)
(* cursor; the model keeps the C++ call stack explicitly.  Every frame     *)
(* holds the locals of one activation, named as in the source, and a pc    *)
(* naming the statement it is about to execute.                            *)
(*                                                                         *)
(* Text is a sequence of one-character strings.  A std::string& parameter  *)
(* is an address: [frame |-> index on the stack, var |-> name of the       *)
(* std::string local it is bound to].                                      *)
(*                                                                         *)
(* Frame fields that are not locals of the source are history variables,   *)
(* written only, never read by an action's guard or effect on the program  *)
(* state:  mark (length of the bound output string at entry), pos0         *)
(* (Position at entry), argmark/args/delims (DemangleTemplate: the text    *)
(* each DemangleType call appended and the delimiter read after it),       *)
(* partmark/parts (DemangleType, case 'F': the text each parameter's       *)
(* DemangleType call appended to prms), fmarker (Demangle: line 407        *)
(* consumed the F marker).                                                 *)
(***************************************************************************)
EXTENDS Integers, Sequences, FiniteSets

VARIABLES Data, Position, stack, result, status

vars == <<Data, Position, stack, result, status>>

\* ------------------------------------------------------------------ bounds

\* Most tokens concatenated into one input symbol.
MaxTokens == 3

\* ------------------------------------------------------------- characters

\* The '\0' sentinel Read/Peek/operator[] return at or past the end.
NUL == "NUL"

IntMax == 2147483647

IntMin == (-2147483647) - 1

DigitChars == <<"0", "1", "2", "3", "4", "5", "6", "7", "8", "9">>

\* std::isdigit
IsDigit(c) == \E k \in 1..10 : DigitChars[k] = c

\* The character's code (ASCII), as used by  c - '0'.
Ord(c) ==
  CASE c = NUL -> 0
    [] c = "," -> 44
    [] c = "-" -> 45
    [] c = "0" -> 48
    [] c = "1" -> 49
    [] c = "2" -> 50
    [] c = "3" -> 51
    [] c = "4" -> 52
    [] c = "5" -> 53
    [] c = "6" -> 54
    [] c = "7" -> 55
    [] c = "8" -> 56
    [] c = "9" -> 57
    [] c = "<" -> 60
    [] c = ">" -> 62
    [] c = "A" -> 65
    [] c = "C" -> 67
    [] c = "F" -> 70
    [] c = "P" -> 80
    [] c = "Q" -> 81
    [] c = "R" -> 82
    [] c = "U" -> 85
    [] c = "_" -> 95
    [] c = "a" -> 97
    [] c = "b" -> 98
    [] c = "d" -> 100
    [] c = "f" -> 102
    [] c = "i" -> 105
    [] c = "v" -> 118
    [] c = "x" -> 120

\* ----------------------------------------------------------------- cursor

\* StringStream::Length
Length(data) == Len(data)

\* StringStream::Peek
Peek(data, position) ==
  IF position >= Length(data) THEN NUL ELSE data[position + 1]

\* StringStream::Read, the character returned
ReadChar(data, position) ==
  IF position >= Length(data) THEN NUL ELSE data[position + 1]

\* StringStream::Read, the position afterwards
ReadPos(data, position) ==
  IF position >= Length(data) THEN position ELSE position + 1

\* StringStream::operator[]
At(data, index) ==
  IF index >= Length(data) THEN NUL ELSE data[index + 1]

\* ------------------------------------------------------------- int values

\* The value of  a * 10 + d  reduced to 32 bits, two's complement, computed
\* on 16-bit halves.
Wrap32MulAdd(a, d) ==
  LET q  == a \div 65536
      r  == a % 65536
      t  == 10 * r + d
      th == t \div 65536
      tl == t % 65536
      h  == 10 * q + th
      hs == ((h + 32768) % 65536) - 32768
  IN  hs * 65536 + tl

\* a * 10 + d  leaves the range of int (signed overflow: undefined).
MulAddOverflows(a, d) ==
  \/ a > 214748364
  \/ a < -214748364
  \/ (d > 0 /\ 10 * a > IntMax - d)
  \/ (d < 0 /\ 10 * a < IntMin - d)

\* The outcomes of  a * 10 + d  in int: the exact value; or, on signed
\* overflow, the wrapped value or a trap.
MulAdd10(a, d) ==
  IF MulAddOverflows(a, d)
  THEN {[trap |-> FALSE, value |-> Wrap32MulAdd(a, d)], [trap |-> TRUE, value |-> 0]}
  ELSE {[trap |-> FALSE, value |-> 10 * a + d]}

RECURSIVE NatDigits(_)
NatDigits(n) ==
  IF n < 10 THEN <<DigitChars[n + 1]>>
  ELSE NatDigits(n \div 10) \o <<DigitChars[(n % 10) + 1]>>

\* std::to_string(int)
to_string(n) ==
  IF n >= 0 THEN NatDigits(n)
  ELSE IF n = IntMin THEN <<"-", "2", "1", "4", "7", "4", "8", "3", "6", "4", "8">>
  ELSE <<"-">> \o NatDigits(-n)

\* ------------------------------------------------------------- components

Modifiers == {"Const", "Pointer", "Reference", "Unsigned"}

\* ComponentInfo(ComponentType t)
SimpleComponent(t) == [type |-> t, length |-> 0, name |-> <<>>, prms |-> <<>>]

\* ComponentInfo(int array_len)
ArrayComponent(n) == [type |-> "Array", length |-> n, name |-> <<>>, prms |-> <<>>]

\* ComponentInfo(const std::string& type_name)
TypeComponent(n) == [type |-> "Type", length |-> 0, name |-> n, prms |-> <<>>]

\* ComponentInfo(const std::string& params, const std::string& ret)
FuncComponent(p, r) == [type |-> "Func", length |-> 0, name |-> r, prms |-> p]

InsertFront_Back(components, c) == Append(components, c)

\* components.insert(components.begin(), c)
InsertFront(components, c) == <<c>> \o components

\* The fixed token of a component that is neither Func nor Array.
TokenText(c) ==
  CASE c.type = "Const" -> <<"c", "o", "n", "s", "t">>
    [] c.type = "Pointer" -> <<"*">>
    [] c.type = "Reference" -> <<"&">>
    [] c.type = "Unsigned" -> <<"u", "n", "s", "i", "g", "n", "e", "d">>
    [] c.type = "Ellipsis" -> <<".", ".", ".">>
    [] c.type = "Void" -> <<"v", "o", "i", "d">>
    [] c.type = "Bool" -> <<"b", "o", "o", "l">>
    [] c.type = "Char" -> <<"c", "h", "a", "r">>
    [] c.type = "WChar" -> <<"w", "c", "h", "a", "r", "_", "t">>
    [] c.type = "Short" -> <<"s", "h", "o", "r", "t">>
    [] c.type = "Int" -> <<"i", "n", "t">>
    [] c.type = "Long" -> <<"l", "o", "n", "g">>
    [] c.type = "LongLong" -> <<"l", "o", "n", "g", " ", "l", "o", "n", "g">>
    [] c.type = "Float" -> <<"f", "l", "o", "a", "t">>
    [] c.type = "Double" -> <<"d", "o", "u", "b", "l", "e">>
    [] c.type = "Type" -> c.name

\* Lines 183-186: the number of consecutive Array components from start.
RECURSIVE ArrayRun(_, _)
ArrayRun(components, start) ==
  IF start < Len(components) /\ components[start + 1].type = "Array"
  THEN 1 + ArrayRun(components, start + 1)
  ELSE 0

\* Mutant of ArrayDims: the dimensions in index order, start upwards.
RECURSIVE ArrayDims_Forward(_, _, _)
ArrayDims_Forward(components, start, count) ==
  IF count <= 0 THEN <<>>
  ELSE <<"[">> \o to_string(components[start + 1].length) \o <<"]">>
       \o ArrayDims_Forward(components, start + 1, count - 1)

\* Lines 195-198: the dimensions start+count-1 down to start.
RECURSIVE ArrayDims(_, _, _)
ArrayDims(components, start, count) ==
  IF count <= 0 THEN <<>>
  ELSE <<"[">> \o to_string(components[start + count].length) \o <<"]">>
       \o ArrayDims(components, start, count - 1)

\* The value read for  last  at line 110 when start is not an index of the
\* vector (the read is undefined; the value is never compared, the loop at
\* line 112 does not run).
Indeterminate == "Indeterminate"

RECURSIVE DemangleComponents(_, _)
RECURSIVE RenderLoop(_, _, _)

\* Lines 112-204: the while loop of DemangleComponents, the text it appends.
RenderLoop(components, start, last) ==
  IF start >= Len(components) THEN <<>>
  ELSE
    LET c == components[start + 1]
        sp == IF c.type # last THEN <<" ">> ELSE <<>>
    IN  CASE c.type = "Func" ->
               sp \o c.name \o <<" ", "(">>
               \o DemangleComponents(components, start + 1)
               \o <<")", "(">> \o c.prms \o <<")">>
          [] c.type = "Array" ->
               LET count == ArrayRun(components, start)
               IN  sp
                   \o (IF count > 0 /\ start + count < Len(components)
                       THEN <<"(">> \o DemangleComponents(components, start + count)
                            \o <<")", " ">>
                       ELSE <<>>)
                   \o ArrayDims(components, start, count)
          [] OTHER -> sp \o TokenText(c) \o RenderLoop(components, start + 1, c.type)

\* DemangleComponents(components, start, output): the text appended to output.
DemangleComponents(components, start) ==
  IF components = <<>> THEN <<>>
  ELSE RenderLoop(components, start,
                  IF start < Len(components) THEN components[start + 1].type
                  ELSE Indeterminate)

\* Some activation of DemangleComponents(components, start, ...) reads
\* components[start] at line 110 with start >= components.size().
RECURSIVE ReadsPastEnd(_, _)
ReadsPastEnd(components, start) ==
  /\ components # <<>>
  /\ \/ start >= Len(components)
     \/ \E k \in start..(Len(components) - 1) :
          /\ \A j \in start..(k - 1) : components[j + 1].type \notin {"Func", "Array"}
          /\ \/ /\ components[k + 1].type = "Func"
                /\ ReadsPastEnd(components, k + 1)
             \/ /\ components[k + 1].type = "Array"
                /\ k + ArrayRun(components, k) < Len(components)
                /\ ReadsPastEnd(components, k + ArrayRun(components, k))

\* ------------------------------------------------------------ pure helpers

\* Demangler::ScanNameEnd: the loop of lines 353-357 from index i, with the
\* value of  end  so far.
RECURSIVE ScanFrom(_, _, _)
ScanFrom(data, i, end) ==
  IF i < Length(data) - 1
  THEN ScanFrom(data, i + 1,
                IF At(data, i) = "_" /\ At(data, i + 1) = "_" THEN i ELSE end)
  ELSE end

\* Mutant of ScanNameEnd: the first "__" from position, not the last.
ScanNameEnd_First(data, position) ==
  LET S == {i \in position..(Length(data) - 2) : At(data, i) = "_" /\ At(data, i + 1) = "_"}
  IN  IF S = {} THEN Length(data) ELSE CHOOSE i \in S : \A j \in S : i <= j

\* Demangler::ScanNameEnd
ScanNameEnd(data, position) == ScanFrom(data, position, Length(data))

\* Mutant of IsLiteralLookahead: the end of input also makes a literal.
IsLiteralLookahead_WithEnd(c) == c = "," \/ c = ">" \/ c = NUL

\* Lines 227-228: the lookahead that makes a digit run a literal.
IsLiteralLookahead(c) == c = "," \/ c = ">"

\* Lines 89-97: the delimiter ends the template argument loop.
TemplateEnds(c) == c = ">" \/ c = NUL

\* Mutant of TemplateSeparator: a comma without the space.
TemplateSeparator_NoSpace(c) == IF c = "," THEN <<",">> ELSE <<>>

\* Lines 92-94: the text appended for the delimiter.
TemplateSeparator(c) == IF c = "," THEN <<",", " ">> ELSE <<>>

\* Mutant of FuncParams: "void" is kept.
FuncParams_Keep(prms) == prms

\* Line 328: the parameter text stored in the Func component.
FuncParams(prms) == IF prms = <<"v", "o", "i", "d">> THEN <<>> ELSE prms

\* Mutant of Compose: the parentheses are appended also around empty prms.
Compose_AlwaysParens(type, name, prms, constant) ==
  (IF type # <<>> THEN type \o <<":", ":">> ELSE <<>>)
  \o name
  \o <<"(">> \o prms \o <<")">>
  \o (IF constant THEN <<" ", "c", "o", "n", "s", "t">> ELSE <<>>)

\* Mutant of Compose: the owner type and the name are joined by one ':'.
Compose_OneColon(type, name, prms, constant) ==
  (IF type # <<>> THEN type \o <<":">> ELSE <<>>)
  \o name
  \o (IF prms # <<>> THEN <<"(">> \o prms \o <<")">> ELSE <<>>)
  \o (IF constant THEN <<" ", "c", "o", "n", "s", "t">> ELSE <<>>)

\* Mutant of Compose: " const" is placed before the parameter list.
Compose_ConstFirst(type, name, prms, constant) ==
  (IF type # <<>> THEN type \o <<":", ":">> ELSE <<>>)
  \o name
  \o (IF constant THEN <<" ", "c", "o", "n", "s", "t">> ELSE <<>>)
  \o (IF prms # <<>> THEN <<"(">> \o prms \o <<")">> ELSE <<>>)

\* Lines 418-427: the text Demangle appends to the (empty) output.
Compose(type, name, prms, constant) ==
  (IF type # <<>> THEN type \o <<":", ":">> ELSE <<>>)
  \o name
  \o (IF prms # <<>> THEN <<"(">> \o prms \o <<")">> ELSE <<>>)
  \o (IF constant THEN <<" ", "c", "o", "n", "s", "t">> ELSE <<>>)

\* ------------------------------------------------------------------ frames

\* Activation of Demangle (lines 384-390).
NewDemangle ==
  [fn |-> "Demangle", pc |-> "name", output |-> <<>>, name |-> <<>>,
   type |-> <<>>, prms |-> <<>>, constant |-> FALSE, fmarker |-> FALSE]

\* Activation of DemangleName (line 364).
NewName == [fn |-> "DemangleName", pc |-> "scan", output |-> <<>>, end |-> 0]

\* Activation of DemangleTemplate with output bound to ref.
NewTemplate(ref, mark) ==
  [fn |-> "DemangleTemplate", pc |-> "open", out |-> ref, end |-> FALSE,
   mark |-> mark, argmark |-> 0, args |-> <<>>, delims |-> <<>>]

\* Activation of DemangleType with output bound to ref.
NewType(ref, mark, pos) ==
  [fn |-> "DemangleType", pc |-> "entry", out |-> ref, c |-> NUL,
   literal |-> FALSE, negative |-> FALSE, length |-> 0, start |-> 0,
   end |-> FALSE, components |-> <<>>, len |-> 0, count |-> 0,
   name |-> <<>>, prms |-> <<>>, ret |-> <<>>, mark |-> mark, pos0 |-> pos,
   partmark |-> -1, parts |-> <<>>]

\* The std::string a reference is bound to.
Target(stk, ref) == stk[ref.frame][ref.var]

\* output += s  through a reference.
EmitTo(stk, ref, s) == [stk EXCEPT ![ref.frame][ref.var] = @ \o s]

\* The address of local string v of the frame at index k.
Local(k, v) == [frame |-> k, var |-> v]

Top == stack[Len(stack)]

AtPc(fn, pc) ==
  /\ status = "running"
  /\ stack # <<>>
  /\ Top.fn = fn
  /\ Top.pc = pc

\* --------------------------------------------------------------- Demangle

\* Line 387: name = DemangleName(input).
DemangleBegin ==
  /\ AtPc("Demangle", "name")
  /\ stack' = Append([stack EXCEPT ![Len(stack)].pc = "owner"], NewName)
  /\ UNCHANGED <<Data, Position, result, status>>

\* Lines 392-394: the owner type is parsed unless the input is at its end or
\* at the F marker.
DemangleOwner ==
  /\ AtPc("Demangle", "owner")
  /\ LET n == Len(stack)
     IN  IF Position < Length(Data) /\ Peek(Data, Position) # "F"
         THEN stack' = Append([stack EXCEPT ![n].pc = "owner_done"],
                              NewType(Local(n, "output"), Len(Top.output), Position))
         ELSE stack' = [stack EXCEPT ![n].pc = "flags"]
  /\ UNCHANGED <<Data, Position, result, status>>

\* Lines 395-396: type = output; output.clear().
DemangleOwnerDone ==
  /\ AtPc("Demangle", "owner_done")
  /\ stack' = [stack EXCEPT ![Len(stack)] =
                 [@ EXCEPT !.type = Top.output, !.output = <<>>, !.pc = "flags"]]
  /\ UNCHANGED <<Data, Position, result, status>>

\* Lines 399-407: the const flag C, then the F marker.
DemangleFlags ==
  /\ AtPc("Demangle", "flags")
  /\ LET isC == Peek(Data, Position) = "C"
         p1  == IF isC THEN ReadPos(Data, Position) ELSE Position
         isF == Peek(Data, p1) = "F"
         p2  == IF isF THEN ReadPos(Data, p1) ELSE p1
     IN  /\ Position' = p2
         /\ stack' = [stack EXCEPT ![Len(stack)] =
                        [@ EXCEPT !.constant = (Top.constant \/ isC),
                                  !.fmarker = isF,
                                  !.pc = IF isF THEN "params" ELSE "compose"]]
  /\ UNCHANGED <<Data, result, status>>

\* Lines 408-415: the parameter loop; at the end of input prms = output.
DemangleParams ==
  /\ AtPc("Demangle", "params")
  /\ LET n == Len(stack)
         o == IF Top.output # <<>> THEN Top.output \o <<",", " ">> ELSE Top.output
     IN  IF Position < Length(Data)
         THEN stack' = Append([stack EXCEPT ![n].output = o],
                              NewType(Local(n, "output"), Len(o), Position))
         ELSE stack' = [stack EXCEPT ![n] =
                          [@ EXCEPT !.prms = Top.output, !.output = <<>>,
                                    !.pc = "compose"]]
  /\ UNCHANGED <<Data, Position, result, status>>

\* Lines 418-429: the result is composed into output.
DemangleCompose ==
  /\ AtPc("Demangle", "compose")
  /\ stack' = [stack EXCEPT ![Len(stack)] =
                 [@ EXCEPT !.output = Top.output
                                      \o Compose(Top.type, Top.name, Top.prms, Top.constant),
                           !.pc = "ret"]]
  /\ UNCHANGED <<Data, Position, result, status>>

\* ----------------------------------------------------------- DemangleName

\* Line 365: end = ScanNameEnd(input).
NameScan ==
  /\ AtPc("DemangleName", "scan")
  /\ stack' = [stack EXCEPT ![Len(stack)] =
                 [@ EXCEPT !.end = ScanNameEnd(Data, Position), !.pc = "loop"]]
  /\ UNCHANGED <<Data, Position, result, status>>

\* Lines 367-374: one iteration of the copy loop, or its exit.
NameLoop ==
  /\ AtPc("DemangleName", "loop")
  /\ LET n == Len(stack)
         c == ReadChar(Data, Position)
     IN  IF Position < Top.end
         THEN /\ Position' = ReadPos(Data, Position)
              /\ IF c = "<"
                 THEN stack' = Append(stack, NewTemplate(Local(n, "output"),
                                                         Len(Top.output)))
                 ELSE stack' = [stack EXCEPT ![n].output = @ \o <<c>>]
         ELSE /\ Position' = Position
              /\ stack' = [stack EXCEPT ![n].pc = "skip"]
  /\ UNCHANGED <<Data, result, status>>

\* Lines 376-379: the separator is skipped when the split point is inside the
\* input.
NameSkip ==
  /\ AtPc("DemangleName", "skip")
  /\ Position' = IF Top.end < Length(Data) THEN Position + 2 ELSE Position
  /\ stack' = [stack EXCEPT ![Len(stack)].pc = "ret"]
  /\ UNCHANGED <<Data, result, status>>

\* ------------------------------------------------------- DemangleTemplate

\* Lines 80-81: output.push_back('<'); end = false.
TemplateOpen ==
  /\ AtPc("DemangleTemplate", "open")
  /\ stack' = [EmitTo(stack, Top.out, <<"<">>) EXCEPT ![Len(stack)] =
                 [@ EXCEPT !.end = FALSE, !.pc = "arg"]]
  /\ UNCHANGED <<Data, Position, result, status>>

\* Line 85: DemangleType(input, output).
TemplateArg ==
  /\ AtPc("DemangleTemplate", "arg")
  /\ LET n == Len(stack)
         m == Len(Target(stack, Top.out))
     IN  stack' = Append([stack EXCEPT ![n] = [@ EXCEPT !.argmark = m, !.pc = "delim"]],
                         NewType(Top.out, m, Position))
  /\ UNCHANGED <<Data, Position, result, status>>

\* Lines 87-99: the delimiter is read; the loop goes on unless it ends it.
TemplateDelim ==
  /\ AtPc("DemangleTemplate", "delim")
  /\ LET c   == ReadChar(Data, Position)
         t   == Target(stack, Top.out)
         end == Top.end \/ TemplateEnds(c)
     IN  /\ Position' = ReadPos(Data, Position)
         /\ stack' = [EmitTo(stack, Top.out, TemplateSeparator(c)) EXCEPT ![Len(stack)] =
                        [@ EXCEPT !.end = end,
                                  !.args = Append(@, SubSeq(t, Top.argmark + 1, Len(t))),
                                  !.delims = Append(@, c),
                                  !.pc = IF end THEN "close" ELSE "arg"]]
  /\ UNCHANGED <<Data, result, status>>

\* Line 101: output.push_back('>').
TemplateClose ==
  /\ AtPc("DemangleTemplate", "close")
  /\ stack' = [EmitTo(stack, Top.out, <<">">>) EXCEPT ![Len(stack)].pc = "ret"]
  /\ UNCHANGED <<Data, Position, result, status>>

\* ----------------------------------------------------------- DemangleType

\* The component a one-character token prepends (lines 262-273, 284-299).
SimpleKind(c) ==
  CASE c = "C" -> "Const"
    [] c = "P" -> "Pointer"
    [] c = "R" -> "Reference"
    [] c = "U" -> "Unsigned"
    [] c = "v" -> "Void"
    [] c = "i" -> "Int"
    [] c = "f" -> "Float"
    [] c = "d" -> "Double"

\* Lines 209-223 and 251-252: the branch is chosen on the current character;
\* a leading '-' is consumed.
TypeEntry ==
  /\ AtPc("DemangleType", "entry")
  /\ LET c == Peek(Data, Position)
     IN  IF c = "-" \/ IsDigit(c)
         THEN /\ Position' = IF c = "-" THEN ReadPos(Data, Position) ELSE Position
              /\ stack' = [stack EXCEPT ![Len(stack)] =
                             [@ EXCEPT !.c = c, !.literal = (c = "-"),
                                       !.negative = (c = "-"), !.length = 0,
                                       !.pc = "digits"]]
         ELSE /\ Position' = Position
              /\ stack' = [stack EXCEPT ![Len(stack)] =
                             [@ EXCEPT !.c = c, !.end = FALSE, !.components = <<>>,
                                       !.pc = "comp"]]
  /\ UNCHANGED <<Data, result, status>>

\* Lines 224-238: one digit of the run; or, after the run, the lookahead and
\* the literal, or the start of the length-prefixed name.
TypeDigits ==
  /\ AtPc("DemangleType", "digits")
  /\ LET n == Len(stack)
         literal == Top.literal \/ IsLiteralLookahead(Peek(Data, Position))
         length == IF Top.negative THEN -Top.length ELSE Top.length
     IN  IF IsDigit(Peek(Data, Position))
         THEN \E o \in MulAdd10(Top.length, Ord(ReadChar(Data, Position)) - Ord("0")) :
                IF o.trap
                THEN /\ status' = "abort"
                     /\ UNCHANGED <<Position, stack>>
                ELSE /\ Position' = ReadPos(Data, Position)
                     /\ stack' = [stack EXCEPT ![n].length = o.value]
                     /\ status' = status
         ELSE /\ IF literal
                 THEN stack' = [EmitTo(stack, Top.out, to_string(length)) EXCEPT ![n] =
                                  [@ EXCEPT !.literal = literal, !.length = length,
                                            !.pc = "ret"]]
                 ELSE stack' = [stack EXCEPT ![n] =
                                  [@ EXCEPT !.literal = literal, !.start = Position,
                                            !.pc = "name"]]
              /\ UNCHANGED <<Position, status>>
  /\ UNCHANGED <<Data, result>>

\* Lines 239-248: one character of the length-prefixed name, or the return.
TypeName ==
  /\ AtPc("DemangleType", "name")
  /\ LET n == Len(stack)
         c == ReadChar(Data, Position)
     IN  IF (Position - Top.start) < Top.length /\ Position < Length(Data)
         THEN /\ Position' = ReadPos(Data, Position)
              /\ IF c = "<"
                 THEN stack' = Append([stack EXCEPT ![n].c = c],
                                      NewTemplate(Top.out, Len(Target(stack, Top.out))))
                 ELSE stack' = [EmitTo(stack, Top.out, <<c>>) EXCEPT ![n].c = c]
         ELSE /\ Position' = Position
              /\ stack' = [stack EXCEPT ![n].pc = "ret"]
  /\ UNCHANGED <<Data, result, status>>

\* Lines 256-344: one iteration of the component loop up to the first call or
\* inner loop of its case.
TypeComp ==
  /\ AtPc("DemangleType", "comp")
  /\ LET n == Len(stack)
         c == ReadChar(Data, Position)
         p == ReadPos(Data, Position)
         end == Top.end \/ c = NUL
     IN  CASE c \in {"C", "P", "R", "U"} ->
                /\ Position' = p
                /\ stack' = [stack EXCEPT ![n] =
                               [@ EXCEPT !.c = c, !.end = end,
                                         !.components = InsertFront(@, SimpleComponent(SimpleKind(c))),
                                         !.pc = IF end THEN "render" ELSE "comp"]]
           [] c = "A" ->
                /\ Position' = p
                /\ stack' = [stack EXCEPT ![n] =
                               [@ EXCEPT !.c = c, !.end = end, !.len = 0, !.pc = "arr_read"]]
           [] c \in {"v", "i", "f", "d"} ->
                /\ Position' = p
                /\ stack' = [stack EXCEPT ![n] =
                               [@ EXCEPT !.c = c, !.end = TRUE,
                                         !.components = InsertFront(@, SimpleComponent(SimpleKind(c))),
                                         !.pc = "render"]]
           [] c = "Q" ->
                /\ Position' = ReadPos(Data, p)
                /\ stack' = [stack EXCEPT ![n] =
                               [@ EXCEPT !.c = c, !.end = end,
                                         !.count = Ord(ReadChar(Data, p)) - Ord("0"),
                                         !.name = <<>>, !.pc = "qloop"]]
           [] c = "F" ->
                /\ Position' = p
                /\ stack' = [stack EXCEPT ![n] =
                               [@ EXCEPT !.c = c, !.end = end, !.prms = <<>>,
                                         !.pc = "fparams"]]
           [] OTHER ->
                IF IsDigit(c)
                THEN /\ Position' = p - 1
                     /\ stack' = Append([stack EXCEPT ![n] =
                                           [@ EXCEPT !.c = c, !.end = end, !.name = <<>>,
                                                     !.pc = "named"]],
                                        NewType(Local(n, "name"), 0, p - 1))
                ELSE /\ Position' = p
                     /\ stack' = [stack EXCEPT ![n] =
                                    [@ EXCEPT !.c = c, !.end = end,
                                              !.pc = IF end THEN "render" ELSE "comp"]]
  /\ UNCHANGED <<Data, result, status>>

\* Line 278: c = input.Read().
TypeArrRead ==
  /\ AtPc("DemangleType", "arr_read")
  /\ Position' = ReadPos(Data, Position)
  /\ stack' = [stack EXCEPT ![Len(stack)] =
                 [@ EXCEPT !.c = ReadChar(Data, Position), !.pc = "arr_acc"]]
  /\ UNCHANGED <<Data, result, status>>

\* Lines 278-281: c != '_' accumulates the dimension and loops; '_' prepends
\* the Array component.
TypeArrAcc ==
  /\ AtPc("DemangleType", "arr_acc")
  /\ LET n == Len(stack)
     IN  IF Top.c # "_"
         THEN \E o \in MulAdd10(Top.len, Ord(Top.c) - Ord("0")) :
                IF o.trap
                THEN /\ status' = "abort"
                     /\ stack' = stack
                ELSE /\ status' = status
                     /\ stack' = [stack EXCEPT ![n] =
                                    [@ EXCEPT !.len = o.value, !.pc = "arr_read"]]
         ELSE /\ status' = status
              /\ stack' = [stack EXCEPT ![n] =
                             [@ EXCEPT !.components = InsertFront(@, ArrayComponent(Top.len)),
                                       !.pc = IF Top.end THEN "render" ELSE "comp"]]
  /\ UNCHANGED <<Data, Position, result>>

\* Lines 305-307 and 311-312: the next sub-name of a qualified name, or the
\* Type component once count is used up.
TypeQLoop ==
  /\ AtPc("DemangleType", "qloop")
  /\ LET n == Len(stack)
     IN  IF Top.count > 0
         THEN stack' = Append([stack EXCEPT ![n] =
                                 [@ EXCEPT !.count = @ - 1, !.pc = "qsep"]],
                              NewType(Local(n, "name"), Len(Top.name), Position))
         ELSE stack' = [stack EXCEPT ![n] =
                          [@ EXCEPT !.count = @ - 1,
                                    !.components = InsertFront(@, TypeComponent(Top.name)),
                                    !.end = TRUE, !.pc = "render"]]
  /\ UNCHANGED <<Data, Position, result, status>>

\* Lines 308-309: "::" between sub-names.
TypeQSep ==
  /\ AtPc("DemangleType", "qsep")
  /\ stack' = [stack EXCEPT ![Len(stack)] =
                 [@ EXCEPT !.name = IF Top.count > 0 THEN @ \o <<":", ":">> ELSE @,
                           !.pc = "qloop"]]
  /\ UNCHANGED <<Data, Position, result, status>>

\* Lines 319-327: the next parameter of a function type; or, at '_' or the
\* end of input, the '_' is read and the return type parsed.
TypeFParams ==
  /\ AtPc("DemangleType", "fparams")
  /\ LET n == Len(stack)
         pr == IF Top.prms # <<>> THEN Top.prms \o <<",", " ">> ELSE Top.prms
         ps == IF Top.partmark >= 0
               THEN Append(Top.parts, SubSeq(Top.prms, Top.partmark + 1, Len(Top.prms)))
               ELSE Top.parts
     IN  IF Peek(Data, Position) # "_" /\ Peek(Data, Position) # NUL
         THEN /\ Position' = Position
              /\ stack' = Append([stack EXCEPT ![n] =
                                    [@ EXCEPT !.prms = pr, !.parts = ps,
                                              !.partmark = Len(pr)]],
                                 NewType(Local(n, "prms"), Len(pr), Position))
         ELSE /\ Position' = ReadPos(Data, Position)
              /\ stack' = Append([stack EXCEPT ![n] =
                                    [@ EXCEPT !.ret = <<>>, !.parts = ps,
                                              !.partmark = -1, !.pc = "fret"]],
                                 NewType(Local(n, "ret"), 0, ReadPos(Data, Position)))
  /\ UNCHANGED <<Data, result, status>>

\* Lines 328-329: the Func component.
TypeFRet ==
  /\ AtPc("DemangleType", "fret")
  /\ stack' = [stack EXCEPT ![Len(stack)] =
                 [@ EXCEPT !.components =
                             InsertFront(@, FuncComponent(FuncParams(Top.prms), Top.ret)),
                           !.end = TRUE, !.pc = "render"]]
  /\ UNCHANGED <<Data, Position, result, status>>

\* Lines 339-340: the Type component of a length-prefixed name.
TypeNamed ==
  /\ AtPc("DemangleType", "named")
  /\ stack' = [stack EXCEPT ![Len(stack)] =
                 [@ EXCEPT !.components = InsertFront(@, TypeComponent(Top.name)),
                           !.end = TRUE, !.pc = "render"]]
  /\ UNCHANGED <<Data, Position, result, status>>

\* The outcomes of DemangleComponents(components, 0, output): it returns; or,
\* when an activation reads components[start] past the end (undefined), the
\* read may instead abort the program (a checked operator[]).
RenderOutcomes(components) ==
  IF ReadsPastEnd(components, 0) THEN {"returns", "aborts"} ELSE {"returns"}

\* Line 346: DemangleComponents(components, 0, output).
TypeRender ==
  /\ AtPc("DemangleType", "render")
  /\ \E o \in RenderOutcomes(Top.components) :
       IF o = "aborts"
       THEN /\ status' = "abort"
            /\ stack' = stack
       ELSE /\ status' = status
            /\ stack' = [EmitTo(stack, Top.out, DemangleComponents(Top.components, 0))
                           EXCEPT ![Len(stack)].pc = "ret"]
  /\ UNCHANGED <<Data, Position, result>>

\* ----------------------------------------------------------------- return

\* A return statement: the frame is popped; DemangleName's value is assigned
\* to name (line 387), Demangle's value is the result of the call.
Return ==
  /\ status = "running"
  /\ stack # <<>>
  /\ Top.pc = "ret"
  /\ LET n == Len(stack)
         rest == SubSeq(stack, 1, n - 1)
     IN  CASE Top.fn = "Demangle" ->
                /\ result' = Top.output
                /\ status' = "done"
                /\ stack' = rest
           [] Top.fn = "DemangleName" ->
                /\ result' = result
                /\ status' = status
                /\ stack' = [rest EXCEPT ![n - 1].name = Top.output]
           [] OTHER ->
                /\ result' = result
                /\ status' = status
                /\ stack' = rest
  /\ UNCHANGED <<Data, Position>>

\* ------------------------------------------------------------------ inputs

RECURSIVE Concat(_)
Concat(ts) == IF ts = <<>> THEN <<>> ELSE Head(ts) \o Concat(Tail(ts))

\* The sequences of at most n elements of S.
RECURSIVE SeqsUpTo(_, _)
SeqsUpTo(S, n) ==
  IF n = 0 THEN {<<>>}
  ELSE LET shorter == SeqsUpTo(S, n - 1)
       IN  shorter \cup {Append(s, x) : s \in shorter, x \in S}

\* Input family: names, separators and templates inside the name.
NamesPrefix == <<>>

NamesTokens ==
  {<<"a">>,
   <<"_">>,
   <<"_", "_">>,
   <<"<">>,
   <<">">>,
   <<",">>,
   <<"i">>,
   <<"a", "<", "i">>,
   <<"_", "_", "i">>,
   <<"a", "_", "_">>}

\* Input family: owner type, const flag and parameter list.
FlagsPrefix == <<"a", "_", "_">>

FlagsTokens ==
  {<<"i">>,
   <<"C">>,
   <<"F">>,
   <<"v">>,
   <<"1", "b">>,
   <<"C", "F">>,
   <<"P">>,
   <<"_">>}

\* Input family: array types in owner position.
ArraysPrefix == <<"_", "_">>

ArraysTokens ==
  {<<"A", "4", "_">>,
   <<"A", "3", "_">>,
   <<"A">>,
   <<"4">>,
   <<"0">>,
   <<"_">>,
   <<"i">>,
   <<"P">>,
   <<"C">>}

\* Input family: function types and qualified names in owner position.
FunctionsPrefix == <<"_", "_">>

FunctionsTokens ==
  {<<"0">>,
   <<"P", "F">>,
   <<"F">>,
   <<"i">>,
   <<"v">>,
   <<"_">>,
   <<"_", "v">>,
   <<"P">>,
   <<"Q", "2">>,
   <<"1", "a">>}

\* Input family: digit runs: literals and length-prefixed names.
LiteralsPrefix == <<"_", "_">>

LiteralsTokens ==
  {<<"2">>,
   <<"0">>,
   <<"-">>,
   <<",">>,
   <<">">>,
   <<"a">>,
   <<"<">>,
   <<"i">>}

\* Input family: template argument lists of a length-prefixed name.
TemplatesPrefix == <<"_", "_", "2", "a", "<">>

TemplatesTokens ==
  {<<"i">>,
   <<",">>,
   <<">">>,
   <<"2", "a", "<">>,
   <<"1">>,
   <<"x">>,
   <<"-">>,
   <<"v">>}

\* Input family: owner types made of modifiers and a base type.
QualifiersPrefix == <<"_", "_">>

QualifiersTokens ==
  {<<"P">>,
   <<"C">>,
   <<"R">>,
   <<"U">>,
   <<"i">>,
   <<"v">>,
   <<"f">>,
   <<"d">>,
   <<"0">>,
   <<"1", "a">>}

\* The symbols of one family: its prefix followed by at most MaxTokens tokens.
Family(prefix, tokens) == {prefix \o Concat(ts) : ts \in SeqsUpTo(tokens, MaxTokens)}

\* The symbols Demangle is called with.
Inputs ==
  Family(NamesPrefix, NamesTokens)
  \cup Family(FlagsPrefix, FlagsTokens)
  \cup Family(ArraysPrefix, ArraysTokens)
  \cup Family(FunctionsPrefix, FunctionsTokens)
  \cup Family(LiteralsPrefix, LiteralsTokens)
  \cup Family(TemplatesPrefix, TemplatesTokens)
  \cup Family(QualifiersPrefix, QualifiersTokens)

\* ----------------------------------------------------------- specification

\* Demangle(symbol) is called: StringStream input(symbol) (line 384).
Init ==
  /\ Data \in Inputs
  /\ Position = 0
  /\ stack = <<NewDemangle>>
  /\ result = <<>>
  /\ status = "running"

Next ==
  \/ DemangleBegin
  \/ DemangleOwner
  \/ DemangleOwnerDone
  \/ DemangleFlags
  \/ DemangleParams
  \/ DemangleCompose
  \/ NameScan
  \/ NameLoop
  \/ NameSkip
  \/ TemplateOpen
  \/ TemplateArg
  \/ TemplateDelim
  \/ TemplateClose
  \/ TypeEntry
  \/ TypeDigits
  \/ TypeName
  \/ TypeComp
  \/ TypeArrRead
  \/ TypeArrAcc
  \/ TypeQLoop
  \/ TypeQSep
  \/ TypeFParams
  \/ TypeFRet
  \/ TypeNamed
  \/ TypeRender
  \/ Return

Spec == Init /\ [][Next]_vars

\* The call runs on: a single thread executes the next statement.
FairSpec == Spec /\ WF_vars(Next)

\* ------------------------------------------------------------------ claims

\* The frames of the stack that are activations of fn at pc.
FramesAt(fn, pc) == {k \in 1..Len(stack) : stack[k].fn = fn /\ stack[k].pc = pc}

\* The text an activation with an output reference has appended so far.
Emitted(f) == SubSeq(Target(stack, f.out), f.mark + 1, Len(Target(stack, f.out)))

\* C1: every call of Demangle ends, on every input: each parse loop exits and
\* the call returns (ending by a trap also counts as ending here).
Demangle_Terminates == <>(status # "running")

\* C2: in every state during a Demangle call the cursor is inside the text,
\* 0 <= Position <= Length.
Position_InRange == 0 <= Position /\ Position <= Length(Data)

\* ---- text helpers of the claims

EndsWith(s, t) == Len(s) >= Len(t) /\ SubSeq(s, Len(s) - Len(t) + 1, Len(s)) = t

Chars(s) == {s[k] : k \in 1..Len(s)}

Min(a, b) == IF a < b THEN a ELSE b

\* The index (0-based) of the first character from i that is no digit.
RECURSIVE RunEnd(_, _)
RunEnd(data, i) ==
  IF i < Len(data) /\ IsDigit(data[i + 1]) THEN RunEnd(data, i + 1) ELSE i

\* The number a digit run denotes.
RECURSIVE RunValue(_)
RunValue(ds) ==
  IF ds = <<>> THEN 0
  ELSE 10 * RunValue(SubSeq(ds, 1, Len(ds) - 1))
       + ((CHOOSE k \in 1..10 : DigitChars[k] = ds[Len(ds)]) - 1)

\* A digit run as bare decimal text: without its leading zeros.
RECURSIVE StripZeros(_)
StripZeros(ds) ==
  IF Len(ds) > 1 /\ Head(ds) = "0" THEN StripZeros(Tail(ds)) ELSE ds

\* The indices i with text[i] = '_' and text[i+1] = '_'.
SplitPoints(data) ==
  {i \in 0..(Len(data) - 2) : data[i + 1] = "_" /\ data[i + 2] = "_"}

\* The right-most such index; the end of input when there is none.
RightMost(data) ==
  IF SplitPoints(data) = {} THEN Len(data)
  ELSE CHOOSE i \in SplitPoints(data) : \A j \in SplitPoints(data) : j <= i

ConstText == <<" ", "c", "o", "n", "s", "t">>

IntText == <<"i", "n", "t">>

VoidText == <<"v", "o", "i", "d">>

\* ---- C3

\* The digit run a DemangleType activation entered on, when it entered on a
\* digit: its end, value, lookahead, and the characters a length prefix of
\* that value covers.
RunOf(f) ==
  LET e == RunEnd(Data, f.pos0)
      n == RunValue(SubSeq(Data, f.pos0 + 1, e))
      avail == Min(n, Len(Data) - e)
  IN  [end |-> e, value |-> n, text |-> SubSeq(Data, f.pos0 + 1, e),
       la |-> At(Data, e), avail |-> avail, body |-> SubSeq(Data, e + 1, e + avail)]

EntersOnDigit == AtPc("DemangleType", "ret") /\ IsDigit(At(Data, Top.pos0))

\* What both readings of C3 say of a run that is a length prefix: the
\* characters it covers are the name (when no '<' is among them).
LengthPrefixed(f) ==
  /\ ~f.literal
  /\ "<" \notin Chars(RunOf(f).body) =>
       /\ Emitted(f) = RunOf(f).body
       /\ Position = RunOf(f).end + RunOf(f).avail

BareLiteral(f) ==
  /\ Emitted(f) = StripZeros(RunOf(f).text)
  /\ Position = RunOf(f).end

\* C3 as stated: a digit run (no leading '-') followed by ',', '>' or the end
\* of input is emitted as bare decimal text and nothing more is consumed; any
\* other lookahead makes it a length prefix.
C3_AsStated ==
  EntersOnDigit =>
    IF RunOf(Top).la \in {",", ">", NUL} THEN BareLiteral(Top) ELSE LengthPrefixed(Top)

\* C3 amended: only ',' and '>' make the run a literal; at the end of input,
\* as before any other character, it is a length prefix (of a name that is
\* then empty).
C3_LiteralOnlyBeforeCommaOrClose ==
  EntersOnDigit =>
    IF RunOf(Top).la \in {",", ">"} THEN BareLiteral(Top) ELSE LengthPrefixed(Top)

\* A run of value > 0 at the end of input was parsed: nothing was emitted.
C3_Witness ==
  /\ EntersOnDigit
  /\ RunOf(Top).la = NUL
  /\ RunOf(Top).value > 0
  /\ Emitted(Top) = <<>>

\* ---- C4

\* C4: the split point is the right-most index i with text[i] = text[i+1] =
\* '_' (the end of input when there is none), and a name without '<' is the
\* text before it.
C4_SplitAtRightMost ==
  /\ \A k \in 1..Len(stack) :
       (stack[k].fn = "DemangleName" /\ stack[k].pc # "scan")
         => stack[k].end = RightMost(Data)
  /\ (AtPc("DemangleName", "ret") /\ "<" \notin Chars(SubSeq(Data, 1, RightMost(Data))))
       => Top.output = SubSeq(Data, 1, RightMost(Data))

\* A symbol with several "__" was split: the name reaches to the last one.
C4_Witness ==
  /\ AtPc("DemangleName", "ret")
  /\ Cardinality(SplitPoints(Data)) >= 2
  /\ "<" \notin Chars(Data)
  /\ Top.output = SubSeq(Data, 1, RightMost(Data))
  /\ \E i \in SplitPoints(Data) : i < RightMost(Data) - 1

\* ---- C5, C6, C7: the composed result, at the return of Demangle

DemangleReturns == AtPc("Demangle", "ret")

\* The owner qualifier and the name, the part of the result before the
\* parameter list.
HeadText(f) == (IF f.type # <<>> THEN f.type \o <<":", ":">> ELSE <<>>) \o f.name

ParenText(f) == <<"(">> \o f.prms \o <<")">>

TailText(f) == IF f.constant THEN ConstText ELSE <<>>

\* C5 as stated: "(" + params + ")" follows the name exactly when the F
\* marker was consumed, also when params is empty.
C5_AsStated ==
  DemangleReturns =>
    Top.output = HeadText(Top)
                 \o (IF Top.fmarker THEN ParenText(Top) ELSE <<>>)
                 \o TailText(Top)

\* C5 amended: "(" + params + ")" follows the name exactly when the F marker
\* was consumed and the joined parameter text is not empty; without the F
\* marker the parameter text is empty.
C5_ParensWhenParamsNonEmpty ==
  DemangleReturns =>
    /\ Top.output = HeadText(Top)
                    \o (IF Top.fmarker /\ Top.prms # <<>> THEN ParenText(Top) ELSE <<>>)
                    \o TailText(Top)
    /\ ~Top.fmarker => Top.prms = <<>>

\* The F marker was the last character: the result has no parentheses; and
\* (second disjunct) a parsed list was appended.
C5_Witness ==
  /\ DemangleReturns
  /\ Top.fmarker
  /\ Top.prms = <<>>
  /\ Position = Length(Data)
  /\ Data[Len(Data)] = "F"
  /\ Top.output = Top.name
  /\ Top.name # <<>>

\* C6: an owner type rendered exactly "int" with nothing after it in the
\* input gives "int::" + name; "int::" itself when the name is empty.
C6_IntOwnerSentinel ==
  (DemangleReturns /\ Top.type = IntText /\ ~Top.constant /\ ~Top.fmarker)
    => /\ Top.output = IntText \o <<":", ":">> \o Top.name
       /\ Top.name = <<>> => Top.output = <<"i", "n", "t", ":", ":">>

\* The symbol "__i" was demangled: the result is "int::".
C6_Witness ==
  /\ DemangleReturns
  /\ Top.type = IntText
  /\ Top.name = <<>>
  /\ Position = Length(Data)
  /\ Top.output = <<"i", "n", "t", ":", ":">>

\* A 'C' stands directly after the "__" separator and an 'F' after it.
ConstAfterSeparator ==
  LET e == RightMost(Data)
  IN  /\ "<" \notin Chars(Data)
      /\ e < Len(Data)
      /\ At(Data, e + 2) = "C"
      /\ \E j \in (e + 3)..(Len(Data) - 1) : At(Data, j) = "F"

\* C7 as stated: with the const flag C after the name (directly after the
\* separator, or after an owner type) and before the F marker, the result
\* ends with " const".
C7_AsStated ==
  (DemangleReturns /\ (ConstAfterSeparator \/ Top.constant))
    => EndsWith(Top.output, ConstText)

\* C7 amended: the const flag is the C that is the next character once the
\* owner type of step 2 has been parsed, and with it the result ends with
\* " const"; a C directly after the separator is parsed as part of the owner
\* type and sets no flag.
C7_ConstAfterOwnerType ==
  /\ [][AtPc("Demangle", "flags")
          => (stack'[1].constant <=> Peek(Data, Position) = "C")]_vars
  /\ [][(AtPc("Demangle", "owner") /\ Peek(Data, Position) = "C")
          => (Len(stack') = 2 /\ stack'[2].fn = "DemangleType"
              /\ stack'[2].pos0 = Position /\ ~stack'[1].constant)]_vars
  /\ []((DemangleReturns /\ Top.constant) => EndsWith(Top.output, ConstText))

\* A const member function was demangled: owner type, parameters, " const".
C7_Witness ==
  /\ DemangleReturns
  /\ Top.constant
  /\ Top.fmarker
  /\ Top.type # <<>>
  /\ Top.prms # <<>>
  /\ EndsWith(Top.output, <<")">> \o ConstText)

\* ---- C8, C9: rendered types, at the return of DemangleType

TypeReturns == AtPc("DemangleType", "ret")

\* The token of a modifier kind.
ModifierToken(kind) ==
  CASE kind = "Const" -> <<"c", "o", "n", "s", "t">>
    [] kind = "Pointer" -> <<"*">>
    [] kind = "Reference" -> <<"&">>
    [] kind = "Unsigned" -> <<"u", "n", "s", "i", "g", "n", "e", "d">>

\* Modifier kinds as text: one space between neighbours of different kind.
RECURSIVE ModifierText(_)
ModifierText(kinds) ==
  IF kinds = <<>> THEN <<>>
  ELSE IF Len(kinds) = 1 THEN ModifierToken(kinds[1])
  ELSE ModifierToken(kinds[1])
       \o (IF kinds[1] # kinds[2] THEN <<" ">> ELSE <<>>)
       \o ModifierText(Tail(kinds))

\* Texts joined by ", ".
RECURSIVE JoinComma(_)
JoinComma(parts) ==
  IF parts = <<>> THEN <<>>
  ELSE IF Len(parts) = 1 THEN parts[1]
  ELSE parts[1] \o <<",", " ">> \o JoinComma(Tail(parts))

\* Texts joined by ", " where text precedes: a text that follows only empty
\* texts gets no separator.
RECURSIVE JoinAfterText(_)
JoinAfterText(parts) ==
  IF parts = <<>> THEN <<>>
  ELSE LET before == JoinAfterText(SubSeq(parts, 1, Len(parts) - 1))
       IN  IF before = <<>> THEN parts[Len(parts)]
           ELSE before \o <<",", " ">> \o parts[Len(parts)]

VoidIsEmpty(t) == IF t = VoidText THEN <<>> ELSE t

\* The activation parsed a function type that only modifiers wrap.
WrappedFunction(f) ==
  /\ Len(f.components) >= 2
  /\ f.components[1].type = "Func"
  /\ \A k \in 2..Len(f.components) : f.components[k].type \in Modifiers

WrappingKinds(f) == [k \in 1..(Len(f.components) - 1) |-> f.components[k + 1].type]

FunctionPointerText(f, params) ==
  f.ret \o <<" ", "(">> \o ModifierText(WrappingKinds(f)) \o <<")", "(">>
  \o VoidIsEmpty(params) \o <<")">>

\* C8 as stated: a pointer-wrapped function type renders as the return text,
\* " (", the wrapping modifiers, ")(", the parameter texts joined by ", "
\* ("void" alone as the empty list), ")", and nothing after it.
C8_AsStated ==
  (TypeReturns /\ WrappedFunction(Top))
    => Emitted(Top) = FunctionPointerText(Top, JoinComma(Top.parts))

\* C8 amended: the same, the parameter texts joined by ", " except that a
\* parameter text preceded by empty parameter texts only gets no separator.
C8_FunctionPointerForm ==
  (TypeReturns /\ WrappedFunction(Top))
    => Emitted(Top) = FunctionPointerText(Top, JoinAfterText(Top.parts))

\* "PFi_v" was parsed and rendered "void (*)(int)".
C8_Witness ==
  /\ TypeReturns
  /\ SubSeq(Data, Top.pos0 + 1, Position) = <<"P", "F", "i", "_", "v">>
  /\ WrappedFunction(Top)
  /\ Top.parts = <<IntText>>
  /\ Emitted(Top) = <<"v", "o", "i", "d", " ", "(", "*", ")", "(", "i", "n", "t", ")">>

\* The kind a modifier character stands for.
KindOfChar(c) ==
  CASE c = "C" -> "Const"
    [] c = "P" -> "Pointer"
    [] c = "R" -> "Reference"
    [] c = "U" -> "Unsigned"

PrimitiveToken(c) ==
  CASE c = "v" -> VoidText
    [] c = "i" -> IntText
    [] c = "f" -> <<"f", "l", "o", "a", "t">>
    [] c = "d" -> <<"d", "o", "u", "b", "l", "e">>

\* The index (1-based) of the first character of r from i that is no modifier.
RECURSIVE ModifiersEnd(_, _)
ModifiersEnd(r, i) ==
  IF i <= Len(r) /\ r[i] \in {"C", "P", "R", "U"} THEN ModifiersEnd(r, i + 1) ELSE i

\* The array run  A n1 _ A n2 _ ...  of r from index i: the digit runs in
\* input order and the index after the run.
RECURSIVE ArrayRunOf(_, _)
ArrayRunOf(r, i) ==
  LET e == RunEnd(r, i) + 1
  IN  IF i <= Len(r) /\ r[i] = "A" /\ e > i + 1 /\ e <= Len(r) /\ r[e] = "_"
      THEN LET rest == ArrayRunOf(r, e + 1)
           IN  [dims |-> <<SubSeq(r, i + 1, e - 1)>> \o rest.dims, next |-> rest.next]
      ELSE [dims |-> <<>>, next |-> i]

RECURSIVE DimsText(_)
DimsText(dims) ==
  IF dims = <<>> THEN <<>>
  ELSE <<"[">> \o StripZeros(Head(dims)) \o <<"]">> \o DimsText(Tail(dims))

Reverse(s) == [k \in 1..Len(s) |-> s[Len(s) + 1 - k]]

\* r is  modifiers, A n1 _ ... A nk _ (k >= 1), primitive.
ArrayForm(r) ==
  LET m == ModifiersEnd(r, 1)
      run == ArrayRunOf(r, m)
  IN  /\ run.dims # <<>>
      /\ run.next = Len(r)
      /\ r[Len(r)] \in {"v", "i", "f", "d"}

\* The rendering C9 states for such an r.
ArrayFormText(r) ==
  LET m == ModifiersEnd(r, 1)
      run == ArrayRunOf(r, m)
      kinds == Reverse([k \in 1..(m - 1) |-> KindOfChar(r[k])])
  IN  PrimitiveToken(r[Len(r)]) \o <<" ">>
      \o (IF m > 1 THEN <<"(">> \o ModifierText(kinds) \o <<")", " ">> ELSE <<>>)
      \o DimsText(run.dims)

\* The characters the activation consumed.
Consumed(f) == SubSeq(Data, f.pos0 + 1, Position)

\* C9: A n1 _ ... A nk _ followed by a primitive renders as the primitive's
\* token, a space and "[n1]...[nk]" in input order; modifiers that wrap the
\* run are rendered in parentheses before the dimensions.
C9_ArrayDimsInInputOrder ==
  (TypeReturns /\ ArrayForm(Consumed(Top)))
    => Emitted(Top) = ArrayFormText(Consumed(Top))

\* "A4_A3_i" was parsed and rendered "int [4][3]".
C9_Witness ==
  /\ TypeReturns
  /\ Consumed(Top) = <<"A", "4", "_", "A", "3", "_", "i">>
  /\ Emitted(Top) = <<"i", "n", "t", " ", "[", "4", "]", "[", "3", "]">>

\* ---- C10: at the return of DemangleTemplate

TemplateReturns == AtPc("DemangleTemplate", "ret")

\* The arguments, each followed by the separator text of its delimiter.
RECURSIVE ArgsText(_, _)
ArgsText(args, seps) ==
  IF args = <<>> THEN <<>>
  ELSE Head(args) \o Head(seps) \o ArgsText(Tail(args), Tail(seps))

\* The delimiter list of a finished call: the last one ended it, none before.
DelimsEndOnce(delims) ==
  /\ delims # <<>>
  /\ delims[Len(delims)] \in {">", NUL}
  /\ \A k \in 1..(Len(delims) - 1) : delims[k] \notin {">", NUL}

\* ", " between any two arguments.
SepBetween(delims) ==
  [k \in 1..Len(delims) |-> IF delims[k] \in {">", NUL} THEN <<>> ELSE <<",", " ">>]

\* ", " after the arguments whose delimiter is ','.
SepAfterComma(delims) ==
  [k \in 1..Len(delims) |-> IF delims[k] = "," THEN <<",", " ">> ELSE <<>>]

\* C10 as stated, taken on the calls whose arguments all render some text: a
\* call emits one '<', its arguments separated by ", ", and one '>', also
\* when the input ends before the '>'.
C10_AsStated ==
  (TemplateReturns /\ \A k \in 1..Len(Top.args) : Top.args[k] # <<>>) =>
    /\ DelimsEndOnce(Top.delims)
    /\ Len(Top.args) = Len(Top.delims)
    /\ Emitted(Top) = <<"<">> \o ArgsText(Top.args, SepBetween(Top.delims)) \o <<">">>

\* C10 amended: a call emits one '<' first and one '>' last, also when the
\* input ends before the '>', and between them its arguments, ", " after
\* each argument whose delimiter is ',' and nothing after an argument whose
\* delimiter is another character (which is consumed and does not end the
\* list).  Each call's brackets enclose exactly its arguments' text.
C10_TemplateBrackets ==
  TemplateReturns =>
    /\ DelimsEndOnce(Top.delims)
    /\ Len(Top.args) = Len(Top.delims)
    /\ Emitted(Top) = <<"<">> \o ArgsText(Top.args, SepAfterComma(Top.delims)) \o <<">">>

\* Two arguments were parsed and the input ended before '>': "<int, int>".
C10_Witness ==
  /\ TemplateReturns
  /\ Top.args = <<IntText, IntText>>
  /\ Top.delims = <<",", NUL>>
  /\ Emitted(Top) = <<"<", "i", "n", "t", ",", " ", "i", "n", "t", ">">>

\* ---- C11: modifiers and a base type, at the return of DemangleType

\* r is  m1 ... mk t : modifier characters, then one primitive character or a
\* length-prefixed name (its digit run, which no ',' or '>' follows, then the
\* characters it covers); next is the character after r.
QualifiedForm(r, next) ==
  LET m == ModifiersEnd(r, 1)
  IN  /\ m <= Len(r)
      /\ \/ m = Len(r) /\ r[m] \in {"v", "i", "f", "d"}
         \/ /\ IsDigit(r[m])
            /\ "<" \notin Chars(r)
            /\ LET e == RunEnd(r, m - 1)
               IN  /\ Len(r) - e = RunValue(SubSeq(r, m, e))
                   /\ (IF e < Len(r) THEN r[e + 1] ELSE next) \notin {",", ">"}

\* The base type of such an r: the component and its text.
BaseComponent(r) ==
  LET m == ModifiersEnd(r, 1)
  IN  IF IsDigit(r[m]) THEN TypeComponent(SubSeq(r, RunEnd(r, m - 1) + 1, Len(r)))
      ELSE SimpleComponent(CASE r[m] = "v" -> "Void" [] r[m] = "i" -> "Int"
                             [] r[m] = "f" -> "Float" [] r[m] = "d" -> "Double")

BaseText(r) ==
  LET m == ModifiersEnd(r, 1)
  IN  IF IsDigit(r[m]) THEN SubSeq(r, RunEnd(r, m - 1) + 1, Len(r))
      ELSE PrimitiveToken(r[m])

\* The modifier kinds of r from the one closest to the base type outwards.
InnermostFirst(r) ==
  Reverse([k \in 1..(ModifiersEnd(r, 1) - 1) |-> KindOfChar(r[k])])

\* C11: for m1 ... mk t parsed in the component branch the components are the base type t, then mk ... m1
\* (innermost-applied first), and the text is t's, then the modifiers' tokens,
\* one space between neighbours of different kind and none between equal
\* kinds.
C11_BaseThenModifiersInnermostFirst ==
  (/\ TypeReturns
   /\ ~IsDigit(At(Data, Top.pos0))
   /\ QualifiedForm(Consumed(Top), At(Data, Position))) =>
    LET r == Consumed(Top)
        kinds == InnermostFirst(r)
    IN  /\ Top.components =
             <<BaseComponent(r)>> \o [k \in 1..Len(kinds) |-> SimpleComponent(kinds[k])]
        /\ Emitted(Top) =
             BaseText(r) \o (IF kinds = <<>> THEN <<>> ELSE <<" ">> \o ModifierText(kinds))

\* "PCi" was parsed and rendered "int const *".
C11_Witness ==
  /\ TypeReturns
  /\ Consumed(Top) = <<"P", "C", "i">>
  /\ Top.components = <<SimpleComponent("Int"), SimpleComponent("Const"),
                        SimpleComponent("Pointer")>>
  /\ Emitted(Top) = <<"i", "n", "t", " ", "c", "o", "n", "s", "t", " ", "*">>

\* ---- C12: the length-prefixed branch, at the return of DemangleType

\* C12: an activation that took the length-prefixed branch with prefix value n
\* returns with the cursor exactly min(n, characters remaining) past the end
\* of its digit run, never further, also when a '<' among those characters
\* started a nested DemangleTemplate.
C12_LengthPrefixBoundsCursor ==
  (EntersOnDigit /\ ~Top.literal)
    => Position = RunOf(Top).end + RunOf(Top).avail

\* ---- C13: the reads of DemangleComponents

\* C13: no activation of DemangleComponents reads components[start] with
\* start >= components.size(): when DemangleType is about to render its
\* components, neither the call it makes nor the recursive calls that one
\* makes (after a Func component, after an Array run) read past the end.
C13_RenderReadsInRange ==
  AtPc("DemangleType", "render") => ~ReadsPastEnd(Top.components, 0)

=============================================================================
